---- MODULE Spec2Model ----
(***************************************************************************)
(* The conversation workflow of src/ai_companion/graph/nodes.py: the nodes *)
(* of the graph as operators from a conversation state (and the results of *)
(* the external calls they make) to the partial update they return, and    *)
(* the workflow engine that runs them turn by turn and merges the updates. *)
(*                                                                         *)
(* A conversation state is a Python dict, modelled as a function from the  *)
(* keys that are present to their values: an absent key is absent from the *)
(* function's domain.  Texts are strings; a message is a record            *)
(* [type, id, content]; identities (uuid4) are fresh naturals.             *)
(***************************************************************************)
EXTENDS Naturals, Sequences, FiniteSets, TLC

\* ------------------------------------------------------------------ bounds
MaxTurns == 2
MaxKeep == 3
MaxTrigger == 2
MaxHist == 3
MaxRouterWindow == 2
MaxSummaries == 3

\* ------------------------------------------------------- values of the run
\* response_type values the router prompt asks for (comment on line 25)
ResponseTypes == {"conversation", "image", "audio"}
\* what the classifier may return: response_type is a free string
ClassifierLabels == ResponseTypes \cup {"video"}
\* ScheduleContextGenerator.get_current_activity(): a text, by wall-clock time
Activities == {"", "working"}
\* text returned by the character response chain
ChainResponses == {"reply"}
\* scenario.image_prompt of text_to_image_module.create_scenario
ImagePrompts == {"sunset over Kyoto", "a cat"}
\* response.content of the summarizing model call
SummaryContents == {"", "summary v1"}
\* content of an incoming user message
UserContents == {"hi"}

VARIABLES
    state,            \* the thread's AICompanionState (keys present -> values)
    settings,         \* ai_companion.settings.settings (fixed for the run)
    pc,               \* the node the engine runs next; "idle", "END" or "FAILED" between turns
    turn,             \* turns started so far
    next_uuid,        \* the next fresh uuid4 (message ids, image file names)
    generated_images, \* files written under generated_images/
    ran,              \* nodes that ran in this turn, in order
    calls,            \* external calls made in this turn, in order
    node,             \* the node that ran last
    prev,             \* the state that node received
    upd,              \* the update that node returned (empty when it raised)
    raised,           \* whether that node raised
    turn_start,       \* the state when this turn's message arrived
    had_summary       \* whether `summary` was non-empty when an earlier turn ended

vars == <<state, settings, pc, turn, next_uuid, generated_images,
          ran, calls, node, prev, upd, raised, turn_start, had_summary>>

\* ----------------------------------------------------------- Python helpers
\* state.get(key, default)
Get(st, key, default) == IF key \in DOMAIN st THEN st[key] ELSE default

Min(a, b) == IF a < b THEN a ELSE b

\* s[-n:]  (for n = 0 Python reads s[0:], the whole list)
SliceLast(s, n) ==
    IF n = 0 \/ n >= Len(s) THEN s ELSE SubSeq(s, Len(s) - n + 1, Len(s))

\* s[:-n]  (for n = 0 Python reads s[:0], the empty list)
SliceButLast(s, n) ==
    IF n = 0 \/ n >= Len(s) THEN << >> ELSE SubSeq(s, 1, Len(s) - n)

\* the empty dict {}
EmptyDict == [k \in {} |-> k]

\* ---------------------------------------------------------------- messages
\* A message's content is a text: the sequence of the fragments it is built
\* from (an f-string is the concatenation of its fragments).
\* id 0 is a message that has no id yet (id=None): the merge assigns one
HumanMessage(content) == [type |-> "human", id |-> 0, content |-> content]
AIMessage(content) == [type |-> "ai", id |-> 0, content |-> content]
RemoveMessage(id) == [type |-> "remove", id |-> id, content |-> << >>]
\* a bare str handed to the messages channel
BareString(content) == [type |-> "str", id |-> 0, content |-> content]

Ids(msgs) == {msgs[i].id : i \in 1..Len(msgs)}


\* ---------------------------------------- the state's merge rules (reducers)
\* a message that arrives without an id gets a fresh one
RECURSIVE AssignIds(_, _)
AssignIds(right, fresh) ==
    IF right = << >> THEN << >>
    ELSE LET m == Head(right) IN
         IF m.id = 0
         THEN <<[m EXCEPT !.id = fresh]>> \o AssignIds(Tail(right), fresh + 1)
         ELSE <<m>> \o AssignIds(Tail(right), fresh)

NewIdCount(u) ==
    IF "messages" \in DOMAIN u
    THEN Cardinality({i \in 1..Len(u.messages) : u.messages[i].id = 0})
    ELSE 0

\* a bare string on the messages channel is read as a user (human) message
CoerceMessage(m) == IF m.type = "str" THEN [m EXCEPT !.type = "human"] ELSE m

\* the messages channel: append new messages, replace a message whose id is
\* already present, remove the ids named by removal markers
add_messages(left, right) ==
    LET new == [i \in 1..Len(right) |-> CoerceMessage(right[i])]
        removed == {new[i].id : i \in {j \in 1..Len(new) : new[j].type = "remove"}}
        IsNew(m) == m.type # "remove" /\ m.id \notin Ids(left)
        Replacement(m) ==
            IF \E i \in 1..Len(new) : new[i].type # "remove" /\ new[i].id = m.id
            THEN new[CHOOSE i \in 1..Len(new) :
                        new[i].type # "remove" /\ new[i].id = m.id]
            ELSE m
        kept == [i \in 1..Len(left) |-> Replacement(left[i])]
        Stays(m) == m.id \notin removed
    IN SelectSeq(kept \o SelectSeq(new, IsNew), Stays)

\* the engine applies a node's partial update: the messages channel merges,
\* every other key is replaced, keys the update does not name are kept
ApplyUpdate(st, u, fresh) ==
    LET scalars == [k \in (DOMAIN u \ {"messages"}) |-> u[k]] IN
    IF "messages" \in DOMAIN u
    THEN [messages |-> add_messages(st.messages, AssignIds(u.messages, fresh))]
             @@ scalars @@ st
    ELSE scalars @@ st

\* ------------------------------------------------------------------- nodes
\* Each node is the update it returns, given the state and what its external
\* calls returned.  A node whose external call raises returns nothing: that
\* is the Raise step of the engine below.

\* "last few (5) messages" (comment on line 24)
ROUTER_MESSAGES_TO_ANALYZE_DEFAULT == 5

\* (mutant) the window is taken from the start of the history
RouterWindow_FirstN(st) ==
    SubSeq(st.messages, 1, Min(settings.ROUTER_MESSAGES_TO_ANALYZE, Len(st.messages)))

\* the messages the router hands to the classifier
RouterWindow(st) == SliceLast(st.messages, settings.ROUTER_MESSAGES_TO_ANALYZE)

\* (mutant) the router also resets the summary
router_node_ResetsSummary(st, response_type) ==
    [workflow |-> response_type, summary |-> ""]

router_node(st, response_type) == [workflow |-> response_type]

context_injection_node(st, schedule_context) ==
    [apply_activity |-> (schedule_context # Get(st, "current_activity", "")),
     current_activity |-> schedule_context]

\* the input of the character response chain
ChainInput(st, msgs, current_activity) ==
    [messages |-> msgs,
     current_activity |-> current_activity,
     memory_context |-> Get(st, "memory_context", ""),
     summary |-> Get(st, "summary", "")]

\* (mutant) the text path resets the artifact fields
conversation_node_ClearsArtifacts(st, response) ==
    [messages |-> <<AIMessage(<<response>>)>>, image_path |-> 0, audio_buffer |-> << >>]

conversation_node(st, response) == [messages |-> <<AIMessage(<<response>>)>>]

\* the message image_node builds from the scenario's prompt
ScenarioMessage(image_prompt) ==
    HumanMessage(<<"<image attached by Ava generated from prompt: ", image_prompt, ">">>)

\* the messages image_node hands to the response chain
UpdatedMessages(st, image_prompt) == st.messages \o <<ScenarioMessage(image_prompt)>>

image_node(st, response, img_path) ==
    [messages |-> <<AIMessage(<<response>>)>>, image_path |-> img_path]

audio_node(st, response, output_audio) ==
    [messages |-> <<BareString(<<response>>)>>, audio_buffer |-> output_audio]

\* the instruction the summarizer appends for the model
SummaryMessage(st) ==
    LET summary == Get(st, "summary", "") IN
    IF summary # ""
    THEN HumanMessage(<<"This is summary of the conversation to date: ", summary,
                        "Extend the summary">>)
    ELSE HumanMessage(<<"Create a summary of the conversation above">>)

\* (mutant) the slice keeps one message fewer than configured
DeleteMessages_KeepsOneLess(st) ==
    LET keep == settings.TOTAL_MESSAGES_AFTER_SUMMARY
        old == IF keep = 0 THEN << >>
               ELSE IF keep - 1 >= Len(st.messages) THEN << >>
               ELSE SubSeq(st.messages, 1, Len(st.messages) - (keep - 1))
    IN [i \in 1..Len(old) |-> RemoveMessage(old[i].id)]

\* (mutant) the markers name positions in the list, not message ids
DeleteMessages_ByPosition(st) ==
    LET old == SliceButLast(st.messages, settings.TOTAL_MESSAGES_AFTER_SUMMARY)
    IN [i \in 1..Len(old) |-> RemoveMessage(i)]

\* the removal markers of summarize_conversation_node
DeleteMessages(st) ==
    LET old == SliceButLast(st.messages, settings.TOTAL_MESSAGES_AFTER_SUMMARY)
    IN [i \in 1..Len(old) |-> RemoveMessage(old[i].id)]

\* (mutant) the summary is stored and no message is removed
summarize_conversation_node_NoPrune(st, content) ==
    [summary |-> content, messages |-> << >>]

summarize_conversation_node(st, content) ==
    [summary |-> content, messages |-> DeleteMessages(st)]

\* (mutant) extraction is called for every message of the history
ExtractionCalls_Rescans(st) ==
    [i \in 1..Len(st.messages) |->
        [fn |-> "extract_and_store_memories", args |-> <<st.messages[i]>>]]

\* the Memory Store calls of memory_extraction_node: none on an empty history,
\* else one, on the last message
ExtractionCalls(st) ==
    IF st.messages = << >> THEN << >>
    ELSE <<[fn |-> "extract_and_store_memories",
            args |-> <<st.messages[Len(st.messages)]>>]>>

memory_extraction_node(st) == EmptyDict

\* " ".join of the contents of the last three messages
RecentContext(st) ==
    LET recent == SliceLast(st.messages, 3)
    IN [i \in 1..Len(recent) |-> recent[i].content]

\* (mutant) an empty memory context is left out of the update
memory_injection_node_OmitsEmpty(st, memory_context) ==
    IF memory_context = "" THEN EmptyDict ELSE [memory_context |-> memory_context]

memory_injection_node(st, memory_context) == [memory_context |-> memory_context]

\* memory_manager.format_memories_for_prompt
format_memories_for_prompt(memories) ==
    IF memories = << >> THEN "" ELSE "- a memory"

\* ------------------------------------------------------------------- edges
\* (mutant) the image and audio branches are swapped
select_workflow_Swapped(st) ==
    IF st.workflow = "image" THEN "audio_node"
    ELSE IF st.workflow = "audio" THEN "image_node"
    ELSE "conversation_node"

select_workflow(st) ==
    IF st.workflow = "image" THEN "image_node"
    ELSE IF st.workflow = "audio" THEN "audio_node"
    ELSE "conversation_node"

should_summarize_conversation(st) ==
    IF Len(st.messages) > settings.TOTAL_MESSAGES_SUMMARY_TRIGGER
    THEN "summarize_conversation_node"
    ELSE "END"


\* ------------------------------------------------------------------ engine
\* A node returned update u (it used `used` uuids of its own): the engine
\* merges it and moves on along the edge.
Return(n, u, used) ==
    /\ node' = n
    /\ prev' = state
    /\ upd' = u
    /\ raised' = FALSE
    /\ state' = ApplyUpdate(state, u, next_uuid + used)
    /\ next_uuid' = next_uuid + used + NewIdCount(u)
    /\ ran' = Append(ran, n)

\* (mutant) a failing node hands back what it had produced so far
Raise_PartialResult(n, used) ==
    /\ node' = n
    /\ prev' = state
    /\ upd' = IF used > 0 THEN [image_path |-> next_uuid] ELSE EmptyDict
    /\ raised' = TRUE
    /\ state' = ApplyUpdate(state, upd', next_uuid + used)
    /\ next_uuid' = next_uuid + used
    /\ ran' = Append(ran, n)
    /\ pc' = "FAILED"

\* (mutant) a failing summarizer has already stored a summary
Raise_CommitsSummary(n, used) ==
    /\ node' = n
    /\ prev' = state
    /\ upd' = IF n = "summarize_conversation_node"
              THEN [summary |-> "partial summary"] ELSE EmptyDict
    /\ raised' = TRUE
    /\ state' = ApplyUpdate(state, upd', next_uuid + used)
    /\ next_uuid' = next_uuid + used
    /\ ran' = Append(ran, n)
    /\ pc' = "FAILED"

\* A node raised: it returns no update and the turn fails.
Raise(n, used) ==
    /\ node' = n
    /\ prev' = state
    /\ upd' = EmptyDict
    /\ raised' = TRUE
    /\ state' = state
    /\ next_uuid' = next_uuid + used
    /\ ran' = Append(ran, n)
    /\ pc' = "FAILED"

Call(fn, args) == [fn |-> fn, args |-> args]

\* A user message arrives and starts a turn.  A thread is followed up to its
\* first failed turn.
TurnStarts(limit) ==
    /\ pc \in {"idle", "END"}
    /\ turn < limit
    /\ \E c \in UserContents :
         LET input == [messages |-> <<HumanMessage(<<c>>)>>] IN
         /\ state' = ApplyUpdate(state, input, next_uuid)
         /\ upd' = input
    /\ next_uuid' = next_uuid + 1
    /\ turn' = turn + 1
    /\ turn_start' = state
    /\ node' = "input"
    /\ prev' = state
    /\ raised' = FALSE
    /\ ran' = << >>
    /\ calls' = << >>
    /\ pc' = "memory_extraction_node"
    /\ had_summary' = (had_summary \/ Get(state, "summary", "") # "")
    /\ UNCHANGED <<settings, generated_images>>

UserMessage == TurnStarts(MaxTurns)

MemoryExtraction ==
    /\ pc = "memory_extraction_node"
    /\ calls' = calls \o ExtractionCalls(state)
    /\ \/ /\ Return("memory_extraction_node", memory_extraction_node(state), 0)
          /\ pc' = "router_node"
       \/ \* extract_and_store_memories raises
          /\ state.messages # << >>
          /\ Raise("memory_extraction_node", 0)
    /\ UNCHANGED <<settings, turn, generated_images, turn_start, had_summary>>

Router ==
    /\ pc = "router_node"
    /\ calls' = Append(calls, Call("router_chain", RouterWindow(state)))
    /\ \/ \E response_type \in ClassifierLabels :
            /\ Return("router_node", router_node(state, response_type), 0)
            /\ pc' = "context_injection_node"
       \/ Raise("router_node", 0)
    /\ UNCHANGED <<settings, turn, generated_images, turn_start, had_summary>>

ContextInjection ==
    /\ pc = "context_injection_node"
    /\ \E schedule_context \in Activities :
         /\ calls' = Append(calls, Call("get_current_activity", <<schedule_context>>))
         /\ Return("context_injection_node",
                   context_injection_node(state, schedule_context), 0)
    /\ pc' = "memory_injection_node"
    /\ UNCHANGED <<settings, turn, generated_images, turn_start, had_summary>>

\* get_relevant_memories: what the store (shared, and written by its own
\* rules) finds relevant to the query: nothing, or some memories
RelevantMemories == {<< >>, <<"a memory">>}

MemoryInjection ==
    /\ pc = "memory_injection_node"
    /\ \/ \E memories \in RelevantMemories :
            /\ calls' = calls \o <<Call("get_relevant_memories", RecentContext(state)),
                                   Call("format_memories_for_prompt", memories)>>
            /\ Return("memory_injection_node",
                      memory_injection_node(state, format_memories_for_prompt(memories)), 0)
            /\ pc' = select_workflow(state')
       \/ /\ calls' = Append(calls, Call("get_relevant_memories", RecentContext(state)))
          /\ Raise("memory_injection_node", 0)
    /\ UNCHANGED <<settings, turn, generated_images, turn_start, had_summary>>


\* get_current_activity() as the generators call it, then the chain call
GeneratorCalls(msgs, current_activity) ==
    <<Call("get_current_activity", <<current_activity>>),
      Call("chain.ainvoke", <<ChainInput(state, msgs, current_activity)>>)>>

Conversation ==
    /\ pc = "conversation_node"
    /\ \E current_activity \in Activities :
         /\ calls' = calls \o GeneratorCalls(state.messages, current_activity)
         /\ \/ \E response \in ChainResponses :
                 /\ Return("conversation_node", conversation_node(state, response), 0)
                 /\ pc' = should_summarize_conversation(state')
            \/ Raise("conversation_node", 0)
    /\ UNCHANGED <<settings, turn, generated_images, turn_start, had_summary>>

Image ==
    /\ pc = "image_node"
    /\ \E current_activity \in Activities :
         LET scenario_call == <<Call("get_current_activity", <<current_activity>>),
                                Call("create_scenario", SliceLast(state.messages, 5))>>
             img_path == next_uuid
         IN
         \/ \* create_scenario raises
            /\ calls' = calls \o scenario_call
            /\ Raise("image_node", 0)
            /\ UNCHANGED generated_images
         \/ \E image_prompt \in ImagePrompts :
              LET image_call == scenario_call \o
                                  <<Call("generate_image", <<image_prompt>>)>>
                  chain_call == image_call \o
                      <<Call("chain.ainvoke",
                             <<ChainInput(state, UpdatedMessages(state, image_prompt),
                                          current_activity)>>)>>
              IN
              \/ \* generate_image raises: no file is written
                 /\ calls' = calls \o image_call
                 /\ Raise("image_node", 1)
                 /\ UNCHANGED generated_images
              \/ \* the response chain raises after the image was written
                 /\ calls' = calls \o chain_call
                 /\ Raise("image_node", 1)
                 /\ generated_images' = generated_images \cup {img_path}
              \/ \E response \in ChainResponses :
                   /\ calls' = calls \o chain_call
                   /\ Return("image_node", image_node(state, response, img_path), 1)
                   /\ generated_images' = generated_images \cup {img_path}
                   /\ pc' = should_summarize_conversation(state')
    /\ UNCHANGED <<settings, turn, turn_start, had_summary>>

\* text_to_speech_module.synthesize(response)
Synthesize(response) == <<"audio of", response>>

Audio ==
    /\ pc = "audio_node"
    /\ \E current_activity \in Activities :
         LET chain_call == GeneratorCalls(state.messages, current_activity) IN
         \/ \* the response chain raises
            /\ calls' = calls \o chain_call
            /\ Raise("audio_node", 0)
         \/ \E response \in ChainResponses :
              /\ calls' = calls \o chain_call \o <<Call("synthesize", <<response>>)>>
              /\ \/ \* synthesize raises
                    Raise("audio_node", 0)
                 \/ /\ Return("audio_node",
                              audio_node(state, response, Synthesize(response)), 0)
                    /\ pc' = should_summarize_conversation(state')
    /\ UNCHANGED <<settings, turn, generated_images, turn_start, had_summary>>

Summarize ==
    /\ pc = "summarize_conversation_node"
    /\ calls' = Append(calls, Call("model.ainvoke",
                                   state.messages \o <<SummaryMessage(state)>>))
    /\ \/ \E content \in SummaryContents :
            /\ Return("summarize_conversation_node",
                      summarize_conversation_node(state, content), 0)
            /\ pc' = "END"
       \/ Raise("summarize_conversation_node", 0)
    /\ UNCHANGED <<settings, turn, generated_images, turn_start, had_summary>>

\* ----------------------------------------------------------- specification
SettingsSpace ==
    [TOTAL_MESSAGES_AFTER_SUMMARY : 0..MaxKeep,
     TOTAL_MESSAGES_SUMMARY_TRIGGER : 0..MaxTrigger,
     ROUTER_MESSAGES_TO_ANALYZE : {ROUTER_MESSAGES_TO_ANALYZE_DEFAULT}]

Init ==
    /\ state = [messages |-> << >>]
    /\ settings \in SettingsSpace
    /\ pc = "idle"
    /\ turn = 0
    /\ next_uuid = 1
    /\ generated_images = {}
    /\ ran = << >>
    /\ calls = << >>
    /\ node = "none"
    /\ prev = [messages |-> << >>]
    /\ upd = EmptyDict
    /\ raised = FALSE
    /\ turn_start = [messages |-> << >>]
    /\ had_summary = FALSE

Next ==
    \/ UserMessage
    \/ MemoryExtraction
    \/ Router
    \/ ContextInjection
    \/ MemoryInjection
    \/ Conversation
    \/ Image
    \/ Audio
    \/ Summarize

Spec == Init /\ [][Next]_vars


\* ------------------------------------------- the nodes on any input state
\* Every node applied once to every state of a bounded space: any history of
\* user and agent messages up to MaxHist, every key present or absent.
NodeNames ==
    {"memory_extraction_node", "router_node", "context_injection_node",
     "memory_injection_node", "conversation_node", "image_node", "audio_node",
     "summarize_conversation_node"}

\* the dicts that hold `key` with one of `values`, or do not hold it
Optional(key, values) == {EmptyDict} \cup {(key :> v) : v \in values}

Histories ==
    UNION {[1..n -> {"human", "ai"}] : n \in 0..MaxHist}

HistoryMessages(types) ==
    [i \in 1..Len(types) |->
        [type |-> types[i], id |-> i,
         content |-> IF types[i] = "human" THEN <<"hi">> ELSE <<"reply">>]]

NodeStates ==
    {[messages |-> HistoryMessages(h), workflow |-> "conversation"] @@ s @@ a @@ m :
        h \in Histories,
        s \in Optional("summary", SummaryContents),
        a \in Optional("current_activity", Activities),
        m \in Optional("memory_context", {"", "- a memory"})}

InitNodes ==
    /\ state \in NodeStates
    /\ settings \in [TOTAL_MESSAGES_AFTER_SUMMARY : 0..MaxKeep,
                     TOTAL_MESSAGES_SUMMARY_TRIGGER : {MaxTrigger},
                     ROUTER_MESSAGES_TO_ANALYZE : 1..MaxRouterWindow]
    /\ pc \in NodeNames
    /\ turn = 1
    /\ next_uuid = Len(state.messages) + 1
    /\ generated_images = {}
    /\ ran = << >>
    /\ calls = << >>
    /\ node = "none"
    /\ prev = state
    /\ upd = EmptyDict
    /\ raised = FALSE
    /\ turn_start = state
    /\ had_summary = (Get(state, "summary", "") # "")

\* one node runs, once
NextNodes ==
    \/ (ran = << >> /\ MemoryExtraction)
    \/ (ran = << >> /\ Router)
    \/ (ran = << >> /\ ContextInjection)
    \/ (ran = << >> /\ MemoryInjection)
    \/ (ran = << >> /\ Conversation)
    \/ (ran = << >> /\ Image)
    \/ (ran = << >> /\ Audio)
    \/ (ran = << >> /\ Summarize)

SpecNodes == InitNodes /\ [][NextNodes]_vars


\* ------------------------------------------ a thread that summarizes often
\* The same engine on a thread of up to MaxSummaries turns whose settings make
\* every completed turn end in a summarization.
InitSummaries ==
    /\ Init
    /\ settings.TOTAL_MESSAGES_SUMMARY_TRIGGER = 0
    /\ settings.TOTAL_MESSAGES_AFTER_SUMMARY = 1

UserMessageInLongThread == TurnStarts(MaxSummaries)

NextSummaries ==
    \/ UserMessageInLongThread
    \/ MemoryExtraction
    \/ Router
    \/ ContextInjection
    \/ MemoryInjection
    \/ Conversation
    \/ Image
    \/ Audio
    \/ Summarize

SpecSummaries == InitSummaries /\ [][NextSummaries]_vars


\* ------------------------------------------ the summarizer applied twice
\* summarize_conversation_node on any input state, then once more on the state
\* it produced, no message arriving in between.
InitTwice ==
    /\ InitNodes
    /\ pc = "summarize_conversation_node"

\* the summarizer is invoked again on the state it left
Reapply ==
    /\ pc = "END"
    /\ ran = <<"summarize_conversation_node">>
    /\ pc' = "summarize_conversation_node"
    /\ UNCHANGED <<state, settings, turn, next_uuid, generated_images, ran, calls,
                   node, prev, upd, raised, turn_start, had_summary>>

NextTwice ==
    \/ (Len(ran) < 2 /\ Summarize)
    \/ Reapply

SpecTwice == InitTwice /\ [][NextTwice]_vars


\* ================================================================== claims
Generators == {"conversation_node", "image_node", "audio_node"}

Summarized == node = "summarize_conversation_node" /\ ~raised

KEEP_LAST == settings.TOTAL_MESSAGES_AFTER_SUMMARY
SUMMARY_TRIGGER == settings.TOTAL_MESSAGES_SUMMARY_TRIGGER

\* C1: whenever a response generator is about to run, `workflow` is set and
\* is one of conversation, image, audio (an unrecognized classifier label
\* having been turned into conversation by the router).
C1_WorkflowValidBeforeGenerator ==
    pc \in Generators =>
        "workflow" \in DOMAIN state /\ state.workflow \in ResponseTypes

\* C2 (as stated): right after summarize_conversation_node's update is
\* applied, `messages` holds at least KEEP_LAST messages, whatever KEEP_LAST
\* and SUMMARY_TRIGGER are.
C2_NeverBelowKeepLast ==
    Summarized => Len(state.messages) >= KEEP_LAST

\* C2 (amended): right after summarize_conversation_node's update is applied,
\* `messages` holds at least min(KEEP_LAST, length before the summarization)
\* messages; hence at least KEEP_LAST whenever SUMMARY_TRIGGER >= KEEP_LAST - 1.
C2_NeverBelowKeepLastOrHistory ==
    Summarized =>
        /\ Len(state.messages) >= Min(KEEP_LAST, Len(prev.messages))
        /\ (SUMMARY_TRIGGER + 1 >= KEEP_LAST => Len(state.messages) >= KEEP_LAST)

\* a summarization that pruned a history longer than KEEP_LAST down to it
C2_Witness ==
    /\ Summarized
    /\ KEEP_LAST > 0
    /\ Len(prev.messages) > KEEP_LAST
    /\ Len(state.messages) = KEEP_LAST

\* C3: the removal markers of summarize_conversation_node name exactly the
\* ids of all messages but the last KEEP_LAST, oldest first, for every
\* KEEP_LAST >= 0; the last min(KEEP_LAST, len) messages stay, in order.
C3_MarkersAreAllButLastKeep ==
    Summarized =>
        LET n == Len(prev.messages)
            keep == Min(KEEP_LAST, n)
        IN /\ upd.messages = [i \in 1..(n - keep) |-> RemoveMessage(prev.messages[i].id)]
           /\ state.messages = SubSeq(prev.messages, n - keep + 1, n)

\* C4: context_injection_node sets apply_activity to true on the first turn
\* (no current_activity in the state) whatever the schedule returns, and
\* otherwise exactly when the schedule's activity differs from the state's;
\* it always sets current_activity to the schedule's activity.
C4_ApplyActivity ==
    node = "context_injection_node" =>
        LET schedule_context == calls[Len(calls)].args[1] IN
        /\ upd.current_activity = schedule_context
        /\ upd.apply_activity =
             IF "current_activity" \notin DOMAIN prev THEN TRUE
             ELSE schedule_context # prev.current_activity

\* C5: after a turn's image_node, `messages` is the history image_node
\* received, then the synthetic message carrying the scenario's prompt, then
\* the agent's response.
C5_SyntheticMessagePersisted ==
    (node = "image_node" /\ ~raised) =>
        LET n == Len(prev.messages)
            image_prompt == calls[Len(calls) - 1].args[1]
        IN /\ Len(state.messages) = n + 2
           /\ SubSeq(state.messages, 1, n) = prev.messages
           /\ state.messages[n + 1].content = ScenarioMessage(image_prompt).content
           /\ state.messages[n + 2].type = "ai"

\* C6: a generator that completed has appended at least one message to
\* `messages`, every appended message has the agent role, and the history
\* it received is unchanged.
C6_GeneratorAppendsAgentMessage ==
    (node \in Generators /\ ~raised) =>
        LET n == Len(prev.messages) IN
        /\ Len(state.messages) > n
        /\ SubSeq(state.messages, 1, n) = prev.messages
        /\ \A i \in (n + 1)..Len(state.messages) : state.messages[i].type = "ai"


\* C7: a turn runs memory_extraction, router, context_injection,
\* memory_injection in that order, then exactly the one generator `workflow`
\* selects, then summarization if and only if len(messages) exceeds
\* SUMMARY_TRIGGER at that point, else it ends; no node runs twice.
C7_FixedOrder ==
    LET order == <<"memory_extraction_node", "router_node",
                   "context_injection_node", "memory_injection_node">>
        n == Len(ran)
    IN /\ \A i \in 1..Min(n, 4) : ran[i] = order[i]
       /\ n >= 5 =>
            /\ state.workflow = "image" => ran[5] = "image_node"
            /\ state.workflow = "audio" => ran[5] = "audio_node"
            /\ state.workflow \notin {"image", "audio"} => ran[5] = "conversation_node"
       /\ n >= 6 => /\ n = 6
                    /\ ran[6] = "summarize_conversation_node"
                    /\ Len(prev.messages) > SUMMARY_TRIGGER
       /\ \A i, j \in 1..n : ran[i] = ran[j] => i = j
       /\ (pc \in NodeNames /\ n < 4) => pc = order[n + 1]
       /\ pc \in Generators => n = 4
       /\ pc = "summarize_conversation_node" =>
            n = 5 /\ Len(state.messages) > SUMMARY_TRIGGER
       /\ pc = "END" => \/ n = 6
                        \/ n = 5 /\ Len(state.messages) <= SUMMARY_TRIGGER

\* a turn that went through the image generator and then summarization
C7_Witness ==
    /\ pc = "END"
    /\ Len(ran) = 6
    /\ ran[5] = "image_node"

\* C8 (as stated): a turn that began with more than SUMMARY_TRIGGER messages
\* runs summarization and ends with KEEP_LAST + 2 messages (the retained
\* window plus the new user and agent messages), and a non-empty summary.
\* Read here in the claim's favour: for KEEP_LAST >= 1 only, and with the
\* summary required non-empty only when the model returned a non-empty text.
C8_EndLengthIsKeepLastPlusExchange ==
    (pc = "END" /\ Len(turn_start.messages) > SUMMARY_TRIGGER /\ KEEP_LAST >= 1) =>
        /\ Summarized
        /\ Len(state.messages) = KEEP_LAST + 2
        /\ (upd.summary # "" => state.summary # "")

\* C8 (amended): a turn that began with n > SUMMARY_TRIGGER messages and
\* completes runs summarization on the n + 2 messages of the history plus the
\* new exchange; for 1 <= KEEP_LAST it ends with min(KEEP_LAST, n + 2)
\* messages, the new exchange counted inside the retained window (for
\* KEEP_LAST = 0 the summarizer emits no removal and n + 2 remain); `summary`
\* is the content the model returned.
C8_EndLengthIsKeepLast ==
    (pc = "END" /\ Len(turn_start.messages) > SUMMARY_TRIGGER) =>
        LET n == Len(turn_start.messages) IN
        /\ Summarized
        /\ Len(prev.messages) = n + 2
        /\ KEEP_LAST >= 1 => Len(state.messages) = Min(KEEP_LAST, n + 2)
        /\ KEEP_LAST = 0 => Len(state.messages) = n + 2
        /\ "summary" \in DOMAIN state /\ state.summary = upd.summary

\* such a turn, pruned to a window that holds the new exchange
C8_Witness ==
    /\ pc = "END"
    /\ Len(turn_start.messages) > SUMMARY_TRIGGER
    /\ KEEP_LAST >= 2
    /\ Len(prev.messages) > KEEP_LAST
    /\ Len(state.messages) = KEEP_LAST
    /\ state.summary # ""

\* C9: on an empty `messages`, memory_extraction_node and
\* memory_injection_node both short-circuit: no Memory Store call, no
\* exception, and the state is left as it was.
C9_EmptyHistoryShortCircuits ==
    (node \in {"memory_extraction_node", "memory_injection_node"}
        /\ prev.messages = << >>) =>
        /\ calls = << >>
        /\ ~raised
        /\ state = prev

CallCount(fn) == Cardinality({i \in 1..Len(calls) : calls[i].fn = fn})

\* C10: a generator whose external call failed returns no update (no new
\* message, no image_path, no audio_buffer: the state is as the generator
\* received it), and no external call of a generator is made twice.
C10_FailureYieldsNoUpdate ==
    /\ (node \in Generators /\ raised) =>
          /\ upd = EmptyDict
          /\ state = prev
          /\ pc = "FAILED"
    /\ \A fn \in {"chain.ainvoke", "create_scenario", "generate_image", "synthesize"} :
          CallCount(fn) <= 1

\* the response chain failed after the image had been generated
C10_Witness ==
    /\ node = "image_node"
    /\ raised
    /\ calls[Len(calls)].fn = "chain.ainvoke"
    /\ generated_images # {}
    /\ "image_path" \notin DOMAIN state


\* the request the summarizer sent to the model: the last message of the call
SummaryRequest == LET sent == calls[Len(calls)].args IN sent[Len(sent)].content

IsCreateRequest == SummaryRequest = <<"Create a summary of the conversation above">>

\* C11: a summarization whose state holds a non-empty `summary` sends that
\* summary with the instruction to extend it, one whose `summary` is empty or
\* absent asks for an initial summary of the full history; so once `summary`
\* has been non-empty, no later summarization of the thread asks to create.
C11_ExtendOnceSummarized ==
    node = "summarize_conversation_node" =>
        LET summary == Get(prev, "summary", "") IN
        /\ calls[Len(calls)].fn = "model.ainvoke"
        /\ SubSeq(calls[Len(calls)].args, 1, Len(prev.messages)) = prev.messages
        /\ summary # "" =>
             SummaryRequest = <<"This is summary of the conversation to date: ",
                                summary, "Extend the summary">>
        /\ summary = "" => IsCreateRequest
        /\ (had_summary \/ summary # "") => ~IsCreateRequest

\* the second of two summarizations in a row has been applied
SecondApplication == Summarized /\ Len(ran) = 2

\* C12: summarize_conversation_node applied twice in a row with no new
\* message in between: the second application removes no further message and
\* does not erase the summary the first one produced.
C12_SecondApplicationKeepsState ==
    SecondApplication =>
        /\ upd.messages = << >>
        /\ state.messages = prev.messages
        /\ (prev.summary # "" => state.summary # "")

DistinctIds(msgs) ==
    \A i, j \in 1..Len(msgs) : msgs[i].id = msgs[j].id => i = j

\* C13: no two entries of `messages` share an id, in every state; each
\* removal marker of a summarization carries the id of exactly one message
\* that was present when the summarizer ran, and the messages that remain are
\* those whose id no marker names, in their order.
C13_PrunedByIdentity ==
    /\ DistinctIds(state.messages)
    /\ Summarized =>
          /\ \A k \in 1..Len(upd.messages) :
                /\ upd.messages[k].type = "remove"
                /\ Cardinality({i \in 1..Len(prev.messages) :
                                  prev.messages[i].id = upd.messages[k].id}) = 1
          /\ DistinctIds(upd.messages)
          /\ LET Unnamed(msg) == msg.id \notin Ids(upd.messages)
             IN state.messages = SelectSeq(prev.messages, Unnamed)

\* a pruning whose removed messages' ids differ from their positions
C13_Witness ==
    /\ Summarized
    /\ upd.messages # << >>
    /\ upd.messages[1].id # 1
    /\ state.messages # << >>
    /\ Len(state.messages) < Len(prev.messages)

\* the texts format_memories_for_prompt can return
MemoryContexts == {format_memories_for_prompt(memories) : memories \in RelevantMemories}

\* C14: memory_injection_node's update always holds `memory_context`, a
\* text; when the Memory Store found no relevant memory it is the empty
\* string "", and that is what the state then holds.
C14_MemoryContextIsText ==
    (node = "memory_injection_node" /\ ~raised) =>
        /\ DOMAIN upd = {"memory_context"}
        /\ upd.memory_context \in MemoryContexts
        /\ "memory_context" \in DOMAIN state
        /\ state.memory_context = upd.memory_context
        /\ calls[Len(calls)].fn = "format_memories_for_prompt"
        /\ calls[Len(calls)].args = << >> => state.memory_context = ""

\* no memory was found and the state held a non-empty context from before
C14_Witness ==
    /\ node = "memory_injection_node"
    /\ ~raised
    /\ calls[Len(calls)].args = << >>
    /\ Get(prev, "memory_context", "") # ""
    /\ state.memory_context = ""

\* the input the generator handed to the response chain
ChainCallInput ==
    LET i == CHOOSE i \in 1..Len(calls) : calls[i].fn = "chain.ainvoke"
    IN calls[i].args[1]

\* C15: the activity a generator passes to the response chain is the
\* `current_activity` context_injection_node wrote into the state in the same
\* turn, also when the schedule's activity changed in between.
C15_ChainGetsStateActivity ==
    (node \in Generators /\ CallCount("chain.ainvoke") = 1) =>
        ChainCallInput.current_activity = prev.current_activity

\* C16: in every turn extract_and_store_memories is called at most once, as
\* the turn's first call, on one message: the user message that started the
\* turn (not an agent message, not a message of an earlier turn); the router
\* runs only after the extraction call has returned.
C16_ExtractionOncePerTurn ==
    /\ CallCount("extract_and_store_memories") <= 1
    /\ \A i \in 1..Len(calls) :
          calls[i].fn = "extract_and_store_memories" =>
              /\ i = 1
              /\ Len(calls[i].args) = 1
              /\ calls[i].args[1].type = "human"
              /\ calls[i].args[1].id \notin Ids(turn_start.messages)
              /\ \A j \in 1..Len(turn_start.messages) :
                    turn_start.messages[j].id < calls[i].args[1].id
    /\ (pc = "router_node" \/ CallCount("router_chain") > 0) =>
          /\ ran[1] = "memory_extraction_node"
          /\ calls[1].fn = "extract_and_store_memories"
          /\ (raised => node # "memory_extraction_node")

\* the second turn's extraction, on a history that holds an agent message
C16_Witness ==
    /\ turn = 2
    /\ pc = "router_node"
    /\ CallCount("extract_and_store_memories") = 1
    /\ \E j \in 1..Len(turn_start.messages) : turn_start.messages[j].type = "ai"
    /\ Len(state.messages) >= 3

\* the step wrote the keys `keys` and nothing else: every other key of the
\* state is as it was, and no other key appeared
ChangedOnly(keys) ==
    /\ DOMAIN upd = keys
    /\ DOMAIN state = DOMAIN prev \cup keys
    /\ \A k \in DOMAIN prev \ keys : state[k] = prev[k]

\* C17: router_node changes only `workflow`; context_injection_node only
\* `current_activity` and `apply_activity`; memory_extraction_node no field;
\* memory_injection_node only `memory_context`, and the only Memory Store
\* call it makes is the search; none of them changes `messages` or `summary`,
\* and one that fails changes nothing.
C17_PreGenerationFrames ==
    /\ (node = "router_node" /\ ~raised) => ChangedOnly({"workflow"})
    /\ (node = "context_injection_node" /\ ~raised) =>
          ChangedOnly({"current_activity", "apply_activity"})
    /\ (node = "memory_extraction_node" /\ ~raised) =>
          upd = EmptyDict /\ state = prev
    /\ (node = "memory_injection_node" /\ ~raised) =>
          /\ ChangedOnly({"memory_context"})
          /\ CallCount("extract_and_store_memories") = 0
          /\ Len(calls) = 2
          /\ calls[1].fn = "get_relevant_memories"
          /\ calls[2].fn = "format_memories_for_prompt"
    /\ (node \in {"router_node", "context_injection_node", "memory_extraction_node",
                   "memory_injection_node"}) =>
          /\ state.messages = prev.messages
          /\ Get(state, "summary", "absent") = Get(prev, "summary", "absent")
          /\ raised => state = prev

\* the router changed `workflow` in a state that holds messages and a summary
C17_Witness ==
    /\ node = "router_node"
    /\ ~raised
    /\ prev.messages # << >>
    /\ Get(prev, "summary", "") # ""
    /\ state.workflow # prev.workflow
    /\ state.summary = prev.summary

ROUTER_WINDOW == settings.ROUTER_MESSAGES_TO_ANALYZE

\* C18: for ROUTER_MESSAGES_TO_ANALYZE = N >= 1 the router hands the
\* classifier exactly the last min(N, len(messages)) messages, oldest first,
\* and nothing older.
C18_RouterWindowIsLastN ==
    (node = "router_node" /\ ROUTER_WINDOW >= 1) =>
        LET n == Len(prev.messages)
            k == Min(ROUTER_WINDOW, n)
            window == calls[Len(calls)].args
        IN /\ calls[Len(calls)].fn = "router_chain"
           /\ Len(window) = k
           /\ \A i \in 1..k : window[i] = prev.messages[n - k + i]

\* a history longer than the window, of which the oldest part is left out
C18_Witness ==
    /\ node = "router_node"
    /\ ROUTER_WINDOW = 2
    /\ Len(prev.messages) = 3
    /\ calls[Len(calls)].args = <<prev.messages[2], prev.messages[3]>>
    /\ prev.messages[1] # prev.messages[2]

\* the last step changed `summary`, or took a message out of `messages`
SummaryChanged == Get(state, "summary", "absent") # Get(prev, "summary", "absent")

MessagesRemoved == \E i \in 1..Len(prev.messages) : prev.messages[i].id \notin Ids(state.messages)

\* C19: a summarization that fails changes neither `summary` nor `messages`;
\* one that succeeds emits the new summary and the removal markers in one
\* update, applied in one step: the state then holds that summary and none of
\* the marked messages.  No other step changes `summary` or removes a message.
C19_SummaryAndPruningTogether ==
    /\ (node = "summarize_conversation_node" /\ raised) =>
          /\ upd = EmptyDict
          /\ state = prev
          /\ pc = "FAILED"
    /\ Summarized =>
          /\ DOMAIN upd = {"summary", "messages"}
          /\ state.summary = upd.summary
          /\ Ids(state.messages) = Ids(prev.messages) \ Ids(upd.messages)
          /\ pc = "END"
    /\ (SummaryChanged \/ MessagesRemoved) => Summarized

\* a summarization that replaced the summary and pruned messages
C19_Witness ==
    /\ Summarized
    /\ Get(prev, "summary", "") # ""
    /\ SummaryChanged
    /\ MessagesRemoved
    /\ state.messages # << >>

\* a summarization that failed on a state with a summary and prunable messages
C19_FailedSummarization ==
    /\ node = "summarize_conversation_node"
    /\ raised
    /\ Get(prev, "summary", "") # ""
    /\ KEEP_LAST >= 1
    /\ Len(prev.messages) > KEEP_LAST

\* the nodes that have run in the turn so far
RanNodes == {ran[i] : i \in 1..Len(ran)}

\* C20: conversation_node's update holds only `messages`, image_node's only
\* `messages` and `image_path`, audio_node's only `messages` and
\* `audio_buffer`, every other field staying as it was; so throughout a turn
\* that has not run image_node `image_path` is what it was when the turn
\* started (present and equal, or absent), and likewise `audio_buffer` in a
\* turn that has not run audio_node.
C20_ArtifactsWrittenByOwnPath ==
    /\ (node = "conversation_node" /\ ~raised) => ChangedOnly({"messages"})
    /\ (node = "image_node" /\ ~raised) => ChangedOnly({"messages", "image_path"})
    /\ (node = "audio_node" /\ ~raised) => ChangedOnly({"messages", "audio_buffer"})
    /\ "image_node" \notin RanNodes =>
          Get(state, "image_path", "absent") = Get(turn_start, "image_path", "absent")
    /\ "audio_node" \notin RanNodes =>
          Get(state, "audio_buffer", "absent") = Get(turn_start, "audio_buffer", "absent")

\* a second turn answered in text and completed, the first turn's image path
\* still in the state
C20_Witness ==
    /\ turn = 2
    /\ pc = "END"
    /\ "conversation_node" \in RanNodes
    /\ "image_path" \in DOMAIN turn_start
    /\ state.image_path = turn_start.image_path
    /\ "audio_buffer" \notin DOMAIN state

====
